---- MODULE Spec2Model ----
(***************************************************************************)
(* Model of src/main.py: one run of the image fetcher and comparer.        *)
(*                                                                         *)
(* Text (coordinates, API keys, file names) is a sequence of one-character *)
(* strings.  An optional value (None, a file that may be absent) is a      *)
(* sequence of length 0 or 1.  A Python dict is a function on its keys.    *)
(***************************************************************************)
EXTENDS Integers, Sequences, FiniteSets, TLC

VARIABLES
    pc,          \* position of main(): start, load, update, report, done,
                 \* fetch_error, compare_error (the last two: uncaught exception)
    osEnvKey,    \* GOOGLE_MAPS_API_KEY in the process environment (optional)
    envFile,     \* value of GOOGLE_MAPS_API_KEY in the .env file (optional file)
    regFile,     \* images.json (optional file): the list of location dicts
    old_images,  \* directory old_images/: file name -> optional bytes
    new_images,  \* directory new_images/: file name -> optional bytes
    metadata,    \* main's local `metadata` (optional: None or the list)
    updates,     \* update_images' list `updates`
    idx,         \* number of entries the for-loop of update_images has finished
    now,         \* the clock read by datetime.now()
    requests,    \* log of the GET requests issued by download_image
    saves,       \* log of the image files written by save_image
    htmlFile,    \* image_comparison.html (optional file): the rendered pairs
    regFile0,    \* history: images.json when the run started
    envFile0,    \* history: .env when the run started
    old0,        \* history: old_images/ when the run started
    new0,        \* history: new_images/ when the run started
    fnA, fnB,    \* two coordinate pairs handed to format_filename
    fnOutA, fnOutB, \* their file names (optional: not yet computed)
    fnCalls      \* how many times format_filename has been applied to fnA, fnB

mainVars == <<pc, osEnvKey, envFile, regFile, old_images, new_images, metadata,
              updates, idx, now, requests, saves, htmlFile,
              regFile0, envFile0, old0, new0>>
fnVars == <<fnA, fnB, fnOutA, fnOutB, fnCalls>>
vars == <<mainVars, fnVars>>

----------------------------------------------------------------------------
(* Bounds *)

\* longest registry (images.json) the run is started with
MaxLocs == 2
\* how often format_filename is re-applied to the same inputs
MaxCalls == 2

----------------------------------------------------------------------------
(* Optional values and dicts *)

None == <<>>
Some(x) == <<x>>
IsSome(o) == Len(o) = 1
Val(o) == o[1]

DictGet(d, k, default) == IF k \in DOMAIN d THEN d[k] ELSE default
DictSet(d, k, v) == [x \in (DOMAIN d) \cup {k} |-> IF x = k THEN v ELSE d[x]]

Rep(ch, n) == [i \in 1..n |-> ch]

----------------------------------------------------------------------------
(* Coordinates and format_filename *)

\* a coordinate as json.load yields it: a str, an int or a float.
\* A float is modelled by its value in tenths.
Text(s) == [kind |-> "str", text |-> s, num |-> 0]
IntV(n) == [kind |-> "int", text |-> <<>>, num |-> n]
FloatV(t) == [kind |-> "float", text |-> <<>>, num |-> t]

Digits == <<"0", "1", "2", "3", "4", "5", "6", "7", "8", "9">>

RECURSIVE NatStr(_)
NatStr(n) == IF n < 10 THEN <<Digits[n + 1]>>
             ELSE NatStr(n \div 10) \o <<Digits[(n % 10) + 1]>>

Abs(n) == IF n < 0 THEN 0 - n ELSE n
Sign(n) == IF n < 0 THEN <<"-">> ELSE <<>>

\* the text an f-string puts for {v}: str(v)
PyFormat(v) ==
    CASE v.kind = "str" -> v.text
      [] v.kind = "int" -> Sign(v.num) \o NatStr(Abs(v.num))
      [] v.kind = "float" ->
            Sign(v.num) \o NatStr(Abs(v.num) \div 10) \o <<".">>
                        \o <<Digits[(Abs(v.num) % 10) + 1]>>

\* str.replace for one-character patterns
Replace(s, from, to) == [i \in 1..Len(s) |-> IF s[i] = from THEN to ELSE s[i]]

format_filename(lat, long) ==
    Replace(Replace(PyFormat(lat) \o <<"_">> \o PyFormat(long), ".", "_"), "-", "n")
        \o <<".", "j", "p", "g">>

\* f"{lat}, {long}"
LocationText(lat, long) == PyFormat(lat) \o <<",", " ">> \o PyFormat(long)

----------------------------------------------------------------------------
(* The API key check of google_key_loaded *)

KeyMinLen == 35
KeyMaxLen == 40

\* the character class [A-Za-z0-9_-]
KeyChars ==
    {"A", "B", "C", "D", "E", "F", "G", "H", "I", "J", "K", "L", "M",
     "N", "O", "P", "Q", "R", "S", "T", "U", "V", "W", "X", "Y", "Z",
     "a", "b", "c", "d", "e", "f", "g", "h", "i", "j", "k", "l", "m",
     "n", "o", "p", "q", "r", "s", "t", "u", "v", "w", "x", "y", "z",
     "0", "1", "2", "3", "4", "5", "6", "7", "8", "9", "_", "-"}

\* s is 35 to 40 characters of the class
KeyBody(s) == /\ Len(s) >= KeyMinLen
              /\ Len(s) <= KeyMaxLen
              /\ \A i \in 1..Len(s) : s[i] \in KeyChars

\* re.match(r'^[A-Za-z0-9_-]{35,40}$', k): without re.MULTILINE, $ matches at
\* the end of the string and also just before a newline that ends the string
KeyMatches(k) ==
    \/ KeyBody(k)
    \/ /\ Len(k) > 0
       /\ k[Len(k)] = "\n"
       /\ KeyBody(SubSeq(k, 1, Len(k) - 1))

Placeholder ==
    <<"<", "y", "o", "u", "r", "_", "k", "e", "y", "_", "h", "e", "r", "e", ">">>

\* load_dotenv() then os.getenv: a variable already in the environment wins,
\* otherwise the value of the .env file, otherwise None
LoadedKey(os, file) == IF IsSome(os) THEN os ELSE file

----------------------------------------------------------------------------
(* Image files and images_are_a_match *)

Bytes == {"b1", "b2", "b3", "b4", "b5"}

\* cv2.imread of a file with these bytes: the pixel grid, or None when the
\* bytes are not an image.  b1 and b2 are two encodings of the same pixels,
\* b4 has another size, b5 does not decode.
Decode(b) ==
    CASE b = "b1" -> Some([shape |-> "600x300", pixels |-> "p1"])
      [] b = "b2" -> Some([shape |-> "600x300", pixels |-> "p1"])
      [] b = "b3" -> Some([shape |-> "600x300", pixels |-> "p2"])
      [] b = "b4" -> Some([shape |-> "640x320", pixels |-> "p3"])
      [] b = "b5" -> None

imread(file) == IF IsSome(file) THEN Decode(Val(file)) ELSE None

\* cv2.absdiff raises cv2.error when the two arrays differ in size
AbsdiffRaises(old, new) ==
    /\ IsSome(imread(old))
    /\ IsSome(imread(new))
    /\ Val(imread(old)).shape # Val(imread(new)).shape

\* the value images_are_a_match returns when absdiff does not raise
images_never_match(old, new) == FALSE

images_are_a_match(old, new) ==
    IF imread(old) = None \/ imread(new) = None
    THEN FALSE
    ELSE Val(imread(old)).pixels = Val(imread(new)).pixels

\* base64.b64encode(...).decode('utf-8') of a file's bytes
image_to_base64(file) == <<"base64", Val(file)>>

----------------------------------------------------------------------------
(* The registry *)

DefaultZoom == 17

JSON_TEMPLATE ==
    << [lat |-> Text(<<"0">>), long |-> Text(<<"0">>), zoom |-> 10,
        name |-> "Location 1"],
       [lat |-> Text(<<"0">>), long |-> Text(<<"0">>), zoom |-> 10,
        name |-> "Location 2"] >>

\* the location dicts a registry is made of: a template entry never pulled, a
\* location written as text and pulled before (no zoom), and a location written
\* as numbers
LocationPool ==
    { JSON_TEMPLATE[1],
      [lat |-> Text(<<"1", ".", "2">>), long |-> Text(<<"3">>), name |-> "Harbour",
       last_pulled |-> <<"iso", 0>>, last_changed |-> <<"iso", 0>>],
      [lat |-> FloatV(12), long |-> IntV(3), zoom |-> 10, name |-> "Quay"] }

Registries == UNION {[1..n -> LocationPool] : n \in 0..MaxLocs}

FileNames == {format_filename(e.lat, e.long) : e \in LocationPool}

\* the reference images a run may find: none, an image, an image of another
\* size, a file that does not decode.  The candidate files start as copies of
\* them, as promotion leaves them.
StoredFiles == {None, Some("b1"), Some("b4"), Some("b5")}

KeySamples ==
    { <<>>, Placeholder, Rep("a", 34), Rep("a", 35), Rep("Z", 41),
      Rep("a", 34) \o <<"!">>, Rep("a", 35) \o <<"\n">> }

\* the environment and .env file a run may start with
ConfigCases ==
    ({None} \X ({None} \cup {Some(k) : k \in KeySamples}))
        \cup ({Some(Rep("-", 40))} \X {Some(Placeholder)})

----------------------------------------------------------------------------
(* Initial states *)

FnIdle ==
    /\ fnA = <<Text(<<"0">>), Text(<<"0">>)>>
    /\ fnB = <<Text(<<"0">>), Text(<<"0">>)>>
    /\ fnOutA = None
    /\ fnOutB = None
    /\ fnCalls = 0

MainInit ==
    /\ pc = "start"
    /\ \E c \in ConfigCases : osEnvKey = c[1] /\ envFile = c[2]
    /\ regFile \in {None} \cup {Some(r) : r \in Registries}
    /\ old_images \in [FileNames -> StoredFiles]
    /\ new_images = old_images
    /\ metadata = None
    /\ updates = <<>>
    /\ idx = 0
    /\ now = 1
    /\ requests = <<>>
    /\ saves = <<>>
    /\ htmlFile = None
    /\ regFile0 = regFile
    /\ envFile0 = envFile
    /\ old0 = old_images
    /\ new0 = new_images

Init == MainInit /\ FnIdle

----------------------------------------------------------------------------
(* main() and the functions it calls *)

\* Python truth value of `metadata`: None and the empty list are false
Truthy(m) == IsSome(m) /\ Val(m) # <<>>

\* the entry the for-loop of update_images is at
Entry == Val(metadata)[idx + 1]

\* the GET request download_image issues for an entry (TEMPLATE_URL filled in)
Request(entry) ==
    [lat |-> PyFormat(entry.lat), long |-> PyFormat(entry.long),
     zoom |-> DictGet(entry, "zoom", DefaultZoom),
     api_key |-> Val(LoadedKey(osEnvKey, envFile))]

WithEntry(e) == Some([Val(metadata) EXCEPT ![idx + 1] = e])

Update(entry, status, fn) ==
    [Name |-> entry.name, Location |-> LocationText(entry.lat, entry.long),
     Status |-> status, old_image |-> <<"old_images", fn>>,
     new_image |-> <<"new_images", fn>>]

\* datetime.isoformat() of a clock value
isoformat(t) == <<"iso", t>>

\* save_image: the directory after writing content to the file fn
save_image_lost(dir, fn, content) == dir

save_image(dir, fn, content) == [dir EXCEPT ![fn] = Some(content)]

\* entry["last_pulled"] = datetime.now().isoformat()
SetLastPulled(entry, t) == DictSet(entry, "last_pulled", isoformat(t))

\* entry["last_changed"] = datetime.now().isoformat()
SetLastChanged_skipped(entry, t) == entry

SetLastChanged(entry, t) == DictSet(entry, "last_changed", isoformat(t))

google_key_loaded ==
    /\ pc = "start"
    /\ LET api_key == LoadedKey(osEnvKey, envFile)
       IN  IF ~IsSome(api_key) \/ Val(api_key) = <<>>
           THEN /\ envFile' = Some(Placeholder)
                /\ pc' = "done"
           ELSE IF ~KeyMatches(Val(api_key))
           THEN /\ pc' = "done"
                /\ UNCHANGED envFile
           ELSE /\ pc' = "load"
                /\ UNCHANGED envFile
    /\ UNCHANGED <<osEnvKey, regFile, old_images, new_images, metadata, updates,
                   idx, now, requests, saves, htmlFile,
                   regFile0, envFile0, old0, new0, fnVars>>

load_metadata_returns_template ==
    /\ pc = "load"
    /\ IF IsSome(regFile)
       THEN /\ metadata' = regFile
            /\ UNCHANGED regFile
       ELSE /\ regFile' = Some(JSON_TEMPLATE)
            /\ metadata' = regFile'
    /\ pc' = "update"
    /\ UNCHANGED <<osEnvKey, envFile, old_images, new_images, updates,
                   idx, now, requests, saves, htmlFile,
                   regFile0, envFile0, old0, new0, fnVars>>

load_metadata ==
    /\ pc = "load"
    /\ IF IsSome(regFile)
       THEN /\ metadata' = regFile
            /\ UNCHANGED regFile
       ELSE /\ regFile' = Some(JSON_TEMPLATE)
            /\ metadata' = None
    /\ pc' = "update"
    /\ UNCHANGED <<osEnvKey, envFile, old_images, new_images, updates,
                   idx, now, requests, saves, htmlFile,
                   regFile0, envFile0, old0, new0, fnVars>>

\* requests.get or raise_for_status raises: nothing catches it
download_image_raises ==
    /\ pc = "update"
    /\ Truthy(metadata)
    /\ idx < Len(Val(metadata))
    /\ requests' = Append(requests, Request(Entry))
    /\ pc' = "fetch_error"
    /\ UNCHANGED <<osEnvKey, envFile, regFile, old_images, new_images, metadata,
                   updates, idx, now, saves, htmlFile,
                   regFile0, envFile0, old0, new0, fnVars>>

\* one iteration of the for-loop of update_images; content is response.content
update_images_entry(content) ==
    /\ pc = "update"
    /\ Truthy(metadata)
    /\ idx < Len(Val(metadata))
    /\ LET entry == Entry
           fn == format_filename(entry.lat, entry.long)
           old_image == old_images[fn]
           new_image == Some(content)
           pulled == SetLastPulled(entry, now)
       IN  /\ requests' = Append(requests, Request(entry))
           /\ new_images' = save_image(new_images, fn, content)
           /\ IF IsSome(old_image) /\ AbsdiffRaises(old_image, new_image)
              THEN /\ pc' = "compare_error"
                   /\ metadata' = WithEntry(pulled)
                   /\ now' = now + 1
                   /\ saves' = Append(saves, <<"new_images", fn>>)
                   /\ UNCHANGED <<old_images, updates, idx>>
              ELSE IF ~IsSome(old_image) \/ ~images_are_a_match(old_image, new_image)
              THEN /\ old_images' = save_image(old_images, fn, Val(new_images'[fn]))
                   /\ metadata' = WithEntry(SetLastChanged(pulled, now + 1))
                   /\ now' = now + 2
                   /\ updates' = Append(updates,
                          Update(entry, IF ~IsSome(old_image) THEN "New" ELSE "Changed", fn))
                   /\ saves' = saves \o << <<"new_images", fn>>, <<"old_images", fn>> >>
                   /\ idx' = idx + 1
                   /\ UNCHANGED pc
              ELSE /\ metadata' = WithEntry(pulled)
                   /\ now' = now + 1
                   /\ updates' = Append(updates, Update(entry, "Unchanged", fn))
                   /\ saves' = Append(saves, <<"new_images", fn>>)
                   /\ idx' = idx + 1
                   /\ UNCHANGED <<pc, old_images>>
    /\ UNCHANGED <<osEnvKey, envFile, regFile, htmlFile,
                   regFile0, envFile0, old0, new0, fnVars>>

\* `return updates`: at once when metadata is None or empty, else after the loop
update_images_return ==
    /\ pc = "update"
    /\ IF Truthy(metadata) THEN idx = Len(Val(metadata)) ELSE TRUE
    /\ pc' = "report"
    /\ UNCHANGED <<osEnvKey, envFile, regFile, old_images, new_images, metadata,
                   updates, idx, now, requests, saves, htmlFile,
                   regFile0, envFile0, old0, new0, fnVars>>

\* Jinja's entry.attr on a dict: the item of that key, or Undefined (None here)
JinjaAttr(d, k) == IF k \in DOMAIN d THEN Some(d[k]) ELSE None

\* the loop at the head of generate_html
WithBase64(entry) ==
    DictSet(DictSet(entry, "old_image_base64",
                    image_to_base64(old_images[entry.old_image[2]])),
            "new_image_base64", image_to_base64(new_images[entry.new_image[2]]))

ImagePair(entry) ==
    [old |-> JinjaAttr(entry, "old_image_base64"),
     new |-> JinjaAttr(entry, "new_image_base64"),
     caption |-> <<JinjaAttr(entry, "Name"), JinjaAttr(entry, "Location")>>]

\* the image pairs of the rendered template, in order
RenderPairs(entries) ==
    LET Shown(e) == JinjaAttr(e, "status") = Some("Changed")
        shown == SelectSeq(entries, Shown)
    IN  [i \in 1..Len(shown) |-> ImagePair(shown[i])]

\* main() goes on after `updates = update_images(metadata)` only when the
\* call returned
UpdateImagesReturned_or_raised == pc \in {"report", "fetch_error"}

UpdateImagesReturned == pc = "report"

\* `if updates:` in main()
HasUpdates_changed_only == \E i \in 1..Len(updates) : updates[i].Status # "Unchanged"

HasUpdates == updates # <<>>

\* the part of main() after update_images returned
main_report ==
    /\ UpdateImagesReturned
    /\ IF HasUpdates
       THEN /\ regFile' = metadata
            /\ updates' = [i \in 1..Len(updates) |-> WithBase64(updates[i])]
            /\ htmlFile' = Some(RenderPairs(updates'))
       ELSE UNCHANGED <<regFile, updates, htmlFile>>
    /\ pc' = "done"
    /\ UNCHANGED <<osEnvKey, envFile, old_images, new_images, metadata,
                   idx, now, requests, saves,
                   regFile0, envFile0, old0, new0, fnVars>>

Next ==
    \/ google_key_loaded
    \/ load_metadata
    \/ download_image_raises
    \/ \E content \in Bytes : update_images_entry(content)
    \/ update_images_return
    \/ main_report

Spec == Init /\ [][Next]_vars

----------------------------------------------------------------------------
(* format_filename on its own *)

CoordValues ==
    { Text(<<"0">>), Text(<<"1">>), Text(<<"3">>), Text(<<"1", ".", "2">>),
      Text(<<"2", ".", "3">>), Text(<<"-", "1", ".", "0">>),
      Text(<<"5", "9", ".", "3", "3">>), FloatV(12), FloatV(0 - 10), FloatV(20),
      IntV(3) }

MainIdle ==
    /\ pc = "done"
    /\ osEnvKey = None
    /\ envFile = None
    /\ regFile = None
    /\ old_images = [f \in FileNames |-> None]
    /\ new_images = [f \in FileNames |-> None]
    /\ metadata = None
    /\ updates = <<>>
    /\ idx = 0
    /\ now = 1
    /\ requests = <<>>
    /\ saves = <<>>
    /\ htmlFile = None
    /\ regFile0 = None
    /\ envFile0 = None
    /\ old0 = old_images
    /\ new0 = new_images

FnInit ==
    /\ MainIdle
    /\ fnA \in CoordValues \X CoordValues
    /\ fnB \in CoordValues \X CoordValues
    /\ fnOutA = None
    /\ fnOutB = None
    /\ fnCalls = 0

FnApply ==
    /\ fnCalls < MaxCalls
    /\ fnOutA' = Some(format_filename(fnA[1], fnA[2]))
    /\ fnOutB' = Some(format_filename(fnB[1], fnB[2]))
    /\ fnCalls' = fnCalls + 1
    /\ UNCHANGED <<fnA, fnB, mainVars>>

FnNext == FnApply

FnSpec == FnInit /\ [][FnNext]_vars

----------------------------------------------------------------------------
(* Properties *)

\* the value of a dict's key as an optional
Field(d, k) == IF k \in DOMAIN d THEN Some(d[k]) ELSE None

\* this step is a loop iteration whose download succeeded
Fetched == /\ pc = "update"
           /\ Len(requests') = Len(requests) + 1
           /\ pc' # "fetch_error"

\* the iteration also ran to its end and appended a result
Processed == Fetched /\ idx' = idx + 1

\* the image file name of the entry the loop is at
CurFile == format_filename(Entry.lat, Entry.long)

\* the file name a result is about
FileOf(u) == u.old_image[2]

AllUnchanged == \A i \in 1..Len(updates) : updates[i].Status = "Unchanged"

\* C1 as stated: a result New or Changed leaves the reference file equal to
\* the candidate file once its location has been processed, and a location
\* that had no reference file before the run gets status New.
C1_Original ==
    /\ \A i \in 1..Len(updates) :
          old0[FileOf(updates[i])] = None => updates[i].Status = "New"
    /\ (pc = "update" /\ idx > 0 /\ updates[idx].Status \in {"New", "Changed"})
          => /\ IsSome(old_images[FileOf(updates[idx])])
             /\ old_images[FileOf(updates[idx])] = new_images[FileOf(updates[idx])]

\* C1 amended: when a location has been processed with status New or Changed,
\* the reference file holds the bytes of the candidate file just fetched; a
\* location that has no reference file at the moment it is processed gets
\* status New and has a reference file afterwards, and New is reported for
\* no other location.
C1_Amended ==
    [][Fetched =>
        /\ (idx' = idx + 1 /\ updates'[idx'].Status \in {"New", "Changed"})
              => /\ IsSome(old_images'[CurFile])
                 /\ old_images'[CurFile] = new_images'[CurFile]
        /\ ~IsSome(old_images[CurFile])
              => /\ idx' = idx + 1
                 /\ updates'[idx'].Status = "New"
                 /\ IsSome(old_images'[CurFile])
        /\ (idx' = idx + 1 /\ updates'[idx'].Status = "New")
              => ~IsSome(old_images[CurFile])
      ]_vars

C1_Witness ==
    /\ pc = "update"
    /\ Len(updates) = 2
    /\ updates[1].Status = "New"
    /\ updates[2].Status = "Changed"
    /\ IsSome(old_images[FileOf(updates[2])])
    /\ old_images[FileOf(updates[2])] = new_images[FileOf(updates[2])]

\* C2 as stated: a location whose candidate is byte-identical to its stored
\* reference gets status Unchanged, its reference file keeps its bytes and
\* its last_changed is not modified.
C2_Original ==
    [][(Fetched /\ IsSome(old_images[CurFile])
                /\ new_images'[CurFile] = old_images[CurFile])
        => /\ idx' = idx + 1
           /\ updates'[idx'].Status = "Unchanged"
           /\ old_images' = old_images
           /\ Field(Val(metadata')[idx'], "last_changed") = Field(Entry, "last_changed")
      ]_vars

\* C2 amended: a location whose candidate is byte-identical to the reference
\* stored at the moment it is processed, and decodes as an image, gets status
\* Unchanged; processing it writes no reference file and does not modify its
\* last_changed.
C2_Amended ==
    [][(Fetched /\ IsSome(old_images[CurFile])
                /\ new_images'[CurFile] = old_images[CurFile]
                /\ IsSome(imread(old_images[CurFile])))
        => /\ idx' = idx + 1
           /\ updates'[idx'].Status = "Unchanged"
           /\ old_images' = old_images
           /\ Field(Val(metadata')[idx'], "last_changed") = Field(Entry, "last_changed")
      ]_vars

C2_Witness ==
    /\ pc = "update"
    /\ idx = 1
    /\ updates[1].Status = "Unchanged"
    /\ old_images = old0
    /\ old_images[FileOf(updates[1])] = new_images[FileOf(updates[1])]
    /\ Field(Val(metadata)[1], "last_changed") = Some(<<"iso", 0>>)

\* C3 as stated: last_changed of a location is set only when its status is
\* Changed; with New or Unchanged it keeps its value.
C3_Original ==
    [][(Processed /\ updates'[idx'].Status # "Changed")
        => Field(Val(metadata')[idx'], "last_changed") = Field(Entry, "last_changed")
      ]_vars

\* C3 amended: last_changed of a location is set by update_images exactly
\* when the location is processed with status New or Changed, to a timestamp
\* taken then; with status Unchanged, and for every other location, it keeps
\* its value.
C3_Amended ==
    [][(IsSome(metadata) /\ IsSome(metadata')) =>
        /\ Len(Val(metadata')) = Len(Val(metadata))
        /\ \A j \in 1..Len(Val(metadata)) :
              Field(Val(metadata')[j], "last_changed") # Field(Val(metadata)[j], "last_changed")
                 => /\ Processed
                    /\ j = idx'
                    /\ updates'[idx'].Status \in {"New", "Changed"}
        /\ (Processed /\ updates'[idx'].Status \in {"New", "Changed"})
              => /\ IsSome(Field(Val(metadata')[idx'], "last_changed"))
                 /\ Val(Field(Val(metadata')[idx'], "last_changed"))[1] = "iso"
                 /\ Val(Field(Val(metadata')[idx'], "last_changed"))[2] >= now
      ]_vars

C3_Witness ==
    /\ pc = "update"
    /\ Len(updates) = 2
    /\ updates[1].Status = "New"
    /\ Field(Val(regFile0)[1], "last_changed") = None
    /\ IsSome(Field(Val(metadata)[1], "last_changed"))
    /\ updates[2].Status = "Unchanged"
    /\ Field(Val(metadata)[2], "last_changed") = Field(Val(regFile0)[2], "last_changed")

\* C4: when the fetch of every location succeeded, update_images returns one
\* result per location of the registry, in registry order, each with the name
\* and coordinates of its location; with an empty or absent registry it
\* returns no result and neither fetches nor writes an image.
C4_Claim ==
    /\ (pc \in {"report", "done", "compare_error"} /\ Truthy(metadata)
            /\ Len(requests) = Len(Val(metadata)))
          => /\ pc # "compare_error"
             /\ Len(updates) = Len(Val(metadata))
             /\ \A i \in 1..Len(updates) :
                   /\ updates[i].Name = Val(metadata)[i].name
                   /\ updates[i].Location
                         = LocationText(Val(metadata)[i].lat, Val(metadata)[i].long)
    /\ (pc = "report" /\ ~Truthy(metadata))
          => updates = <<>> /\ requests = <<>> /\ saves = <<>>

\* C5: when the fetch of a location fails, the run stops there: the failed
\* request is the last one, no result is added, no later location is
\* processed, and images.json is as it was before the run.
C5_Theorem ==
    /\ [](pc = "fetch_error" =>
            /\ regFile = regFile0
            /\ htmlFile = None
            /\ Len(requests) = idx + 1
            /\ Len(updates) = idx
            /\ \A i \in 1..Len(requests) : requests[i] = Request(Val(metadata)[i])
            /\ \A i \in 1..Len(saves) :
                  \E j \in 1..idx : saves[i][2] = FileOf(updates[j]))
    /\ [][pc # "fetch_error"]_vars

C5_Witness ==
    /\ pc = "fetch_error"
    /\ idx >= 1
    /\ old_images # old0
    /\ updates[1].Status \in {"New", "Changed"}
    /\ regFile = regFile0

\* the key google_key_loaded sees is missing, empty or fails its format check
KeyProblem ==
    LET api_key == LoadedKey(osEnvKey, envFile0)
    IN  \/ ~IsSome(api_key)
        \/ Val(api_key) = <<>>
        \/ ~KeyMatches(Val(api_key))

C7_Claim ==
    (pc = "done" /\ regFile0 = None /\ envFile0 = None)
        => (IsSome(regFile) /\ IsSome(envFile))

\* C8: the HTML report holds one image pair with caption for every result of
\* status Changed, in order, and none for the other results.
C8_Claim ==
    IsSome(htmlFile) =>
        LET IsChanged(u) == u.Status = "Changed"
            changed == SelectSeq(updates, IsChanged)
        IN  /\ Len(Val(htmlFile)) = Len(changed)
            /\ \A i \in 1..Len(changed) :
                  /\ Val(htmlFile)[i].caption
                        = <<Some(changed[i].Name), Some(changed[i].Location)>>
                  /\ Val(htmlFile)[i].old
                        = Some(image_to_base64(old_images[FileOf(changed[i])]))
                  /\ Val(htmlFile)[i].new
                        = Some(image_to_base64(new_images[FileOf(changed[i])]))

\* the coordinate pair as written
Written(pair) == <<PyFormat(pair[1]), PyFormat(pair[2])>>

\* C9: format_filename gives the same name whenever it is applied to the same
\* coordinate pair, and different names to different coordinate pairs.
C9_Claim ==
    (IsSome(fnOutA) /\ IsSome(fnOutB)) =>
        /\ fnOutA = Some(format_filename(fnA[1], fnA[2]))
        /\ Written(fnA) # Written(fnB) => fnOutA # fnOutB

\* C10 as stated: when every fetch succeeds and every location comes out
\* Unchanged, main does not save images.json.
C10_Original ==
    (pc = "done" /\ updates # <<>> /\ AllUnchanged) => regFile = regFile0

\* C10 amended: when every fetch succeeds over a non-empty registry and
\* update_images returns, main saves images.json whatever the statuses, also
\* when every location comes out Unchanged, so the last_pulled timestamps set
\* during the run are persisted; images.json is not saved only when there is
\* no result at all.
C10_Amended ==
    /\ (pc = "done" /\ updates # <<>>)
          => /\ regFile = metadata
             /\ \A i \in 1..Len(Val(regFile)) :
                   /\ IsSome(Field(Val(regFile)[i], "last_pulled"))
                   /\ Val(Field(Val(regFile)[i], "last_pulled"))[2] >= 1
    /\ (pc = "done" /\ updates = <<>> /\ IsSome(regFile0)) => regFile = regFile0

C10_Witness ==
    /\ pc = "done"
    /\ Len(updates) = 2
    /\ AllUnchanged
    /\ regFile # regFile0
    /\ regFile = metadata

====
